---------------------------- MODULE Spec2Model ----------------------------
(***************************************************************************)
(* A model of src/java.base/share/native/libjava/java_props.h:             *)
(*   - java_props_t, the platform property record,                         *)
(*   - normalize_encoding, the mapping of legacy encoding aliases to       *)
(*     their IANA names,                                                   *)
(*   - the two declared entry points GetJavaProperties and                 *)
(*     GetStringPlatform, whose bodies are not part of this header.        *)
(*                                                                         *)
(* C strings are arrays of bytes ending with the terminator 0, memory maps *)
(* addresses to such arrays, and a char* is an address (0 is NULL).        *)
(***************************************************************************)
EXTENDS Integers, Sequences, FiniteSets, TLC

(***************************************************************************)
(* Bounds of the model.                                                    *)
(***************************************************************************)
\* number of threads of the concurrent specification
NumThreads == 2
\* number of distinct argument strings the concurrent callers choose from
NumConcArgs == 5
\* longest run of characters appended to an alias to build a longer input
MaxExt == 1

(***************************************************************************)
(* The string literals of the header, as the byte arrays the compiler      *)
(* places in read-only data.                                               *)
(***************************************************************************)
\* #define UTF_8 "UTF-8"
UTF_8 == <<85, 84, 70, 45, 56, 0>>
\* #define ISO_8859_1 "ISO-8859-1"
ISO_8859_1 == <<73, 83, 79, 45, 56, 56, 53, 57, 45, 49, 0>>
\* #define US_ASCII "US-ASCII"
US_ASCII == <<85, 83, 45, 65, 83, 67, 73, 73, 0>>
\* #define ISO_8859_15 "ISO-8859-15"
ISO_8859_15 == <<73, 83, 79, 45, 56, 56, 53, 57, 45, 49, 53, 0>>
\* #define WINDOWS_1251 "windows-1251"
WINDOWS_1251 == <<119, 105, 110, 100, 111, 119, 115, 45, 49, 50, 53, 49, 0>>
\* "ISO8859-1", the literal compared at line 122
LIT_ISO8859_1 == <<73, 83, 79, 56, 56, 53, 57, 45, 49, 0>>
\* "ISO8859-15", the literal compared at line 126
LIT_ISO8859_15 == <<73, 83, 79, 56, 56, 53, 57, 45, 49, 53, 0>>
\* "ANSI_X3.4-1968", the literal compared at line 130
LIT_ANSI_X3_4_1968 == <<65, 78, 83, 73, 95, 88, 51, 46, 52, 45, 49, 57, 54, 56, 0>>
\* "ISO646-US", the literal compared at line 131
LIT_ISO646_US == <<73, 83, 79, 54, 52, 54, 45, 85, 83, 0>>

(***************************************************************************)
(* Operations on C strings.                                                *)
(***************************************************************************)
\* the index of the terminator of the array b: the first 0 in it
RECURSIVE NulAt(_, _)
NulAt(b, i) == IF b[i] = 0 THEN i ELSE NulAt(b, i + 1)

\* the text of the C string held in the array b: the bytes before the
\* terminator (bytes of the array after the terminator are not part of it)
CStr(b) == SubSeq(b, 1, NulAt(b, 1) - 1)

\* strcmp that stops at the end of the shorter string and reports equality
\* (the behaviour of strncmp with the length of s2)
RECURSIVE strcmp_prefix(_, _, _)
strcmp_prefix(s1, s2, i) ==
    IF s2[i] = 0 THEN 0
    ELSE IF s1[i] # s2[i] THEN s1[i] - s2[i]
    ELSE strcmp_prefix(s1, s2, i + 1)

\* strcmp(s1, s2) of the C library, comparing from index i: the difference
\* of the first pair of bytes that differ, 0 when both strings end together
RECURSIVE strcmp(_, _, _)
strcmp(s1, s2, i) ==
    IF s1[i] # s2[i] THEN s1[i] - s2[i]
    ELSE IF s1[i] = 0 THEN 0
    ELSE strcmp(s1, s2, i + 1)

(***************************************************************************)
(* The input strings the callers hold in their buffers.                    *)
(***************************************************************************)
Aliases == <<LIT_ISO8859_1, LIT_ISO8859_15, LIT_ANSI_X3_4_1968, LIT_ISO646_US>>

\* the strings named by the specification's examples; the first entries are
\* the ones the concurrent callers use (two buffers hold the same text)
NamedInputs ==
    << LIT_ISO8859_1,
       <<73, 83, 79, 56, 56, 53, 57, 45, 49, 0, 53, 0>>,        \* "ISO8859-1" then a stale "5"
       LIT_ANSI_X3_4_1968, UTF_8,
       <<85, 84, 70, 45, 56, 0, 73, 83, 79, 0>>,                \* "UTF-8" then a stale "ISO"
       LIT_ISO8859_15, LIT_ISO646_US,
       ISO_8859_1, US_ASCII, ISO_8859_15, WINDOWS_1251,
       <<0>>,                                                   \* ""
       <<73, 83, 79, 56, 56, 53, 57, 45, 49, 53, 48, 0>>,       \* "ISO8859-150"
       <<105, 115, 111, 56, 56, 53, 57, 45, 49, 0>>,            \* "iso8859-1"
       <<105, 115, 111, 54, 52, 54, 45, 117, 115, 0>>,          \* "iso646-us"
       <<97, 110, 115, 105, 95, 120, 51, 46, 52, 45, 49, 57, 54, 56, 0>>, \* "ansi_x3.4-1968"
       <<117, 115, 45, 97, 115, 99, 105, 105, 0>>,              \* "us-ascii"
       <<32, 73, 83, 79, 56, 56, 53, 57, 45, 49, 0>>,           \* " ISO8859-1"
       <<73, 83, 79, 95, 56, 56, 53, 57, 45, 49, 0>>,           \* "ISO_8859-1"
       <<47, 116, 109, 112, 0>>,                                \* "/tmp"
       <<114, 101, 110, 233, 0>>,                               \* "ren\xE9"
       <<233, 0>>,                                              \* "\xE9"
       <<99, 97, 102, 195, 169, 47, 97, 0>> >>                  \* "caf\xC3\xA9/a"

\* the concatenation of a sequence of sequences
RECURSIVE Flatten(_)
Flatten(ss) == IF ss = <<>> THEN <<>> ELSE Head(ss) \o Flatten(Tail(ss))

\* every proper prefix of the string a, the empty one included
Prefixes(a) == [k \in 1..(Len(a) - 1) |-> Append(SubSeq(a, 1, k - 1), 0)]

\* the characters appended to an alias: '0', '5', '-', ' '
ExtChars == <<48, 53, 45, 32>>

\* the string a followed by n copies of the character c
RECURSIVE Extend(_, _, _)
Extend(a, c, n) ==
    IF n = 0 THEN a
    ELSE Extend(Append(SubSeq(a, 1, Len(a) - 1), c) \o <<0>>, c, n - 1)

Extensions(a) ==
    Flatten([n \in 1..MaxExt |->
                [j \in 1..Len(ExtChars) |-> Extend(a, ExtChars[j], n)]])

\* the byte c with the case of an ASCII letter flipped
FlipCase(c) ==
    IF c >= 65 /\ c <= 90 THEN c + 32
    ELSE IF c >= 97 /\ c <= 122 THEN c - 32
    ELSE c

\* the string a with the case of each single letter flipped in turn
CaseFlips(a) ==
    LET at == SelectSeq([k \in 1..(Len(a) - 1) |-> k],
                        LAMBDA k : FlipCase(a[k]) # a[k])
    IN  [j \in 1..Len(at) |-> [a EXCEPT ![at[j]] = FlipCase(a[at[j]])]]

InputStrings ==
    NamedInputs
    \o Flatten([i \in 1..Len(Aliases) |-> Prefixes(Aliases[i])])
    \o Flatten([i \in 1..Len(Aliases) |-> Extensions(Aliases[i])])
    \o Flatten([i \in 1..Len(Aliases) |-> CaseFlips(Aliases[i])])

(***************************************************************************)
(* Memory.  The callers' buffers are at the addresses 1..Len(InputStrings) *)
(* and the literals of normalize_encoding follow them in read-only data.   *)
(***************************************************************************)
\* the null pointer
NULL == 0

Rodata ==
    << LIT_ISO8859_1, ISO_8859_1, LIT_ISO8859_15, ISO_8859_15,
       LIT_ANSI_X3_4_1968, LIT_ISO646_US, US_ASCII >>

Buffers == 1..Len(InputStrings)
Addr == 1..(Len(InputStrings) + Len(Rodata))

\* the address of the k-th literal of Rodata
LitAddr(k) == Len(InputStrings) + k

pISO_8859_1 == LitAddr(2)      \* the literal returned at line 124
pISO_8859_15 == LitAddr(4)     \* the literal returned at line 128
pUS_ASCII == LitAddr(7)        \* the literal returned at line 133
pLIT_ISO8859_1 == LitAddr(1)
pLIT_ISO8859_15 == LitAddr(3)
pLIT_ANSI == LitAddr(5)
pLIT_ISO646_US == LitAddr(6)

InitialMemory == InputStrings \o Rodata

(***************************************************************************)
(* java_props_t.  A text field holds the array of bytes of its string, or  *)
(* Absent for a null pointer; the ...Enabled fields hold an int.  The      *)
(* records below are the host environments a collector can observe.        *)
(***************************************************************************)
\* a null text field
Absent == <<>>

\* a Linux host; neither conditional block is compiled in
HostLinux ==
    [ os_name |-> <<76, 105, 110, 117, 120, 0>>,    \* "Linux"
      os_version |-> <<54, 46, 49, 0>>,    \* "6.1"
      os_arch |-> <<97, 109, 100, 54, 52, 0>>,    \* "amd64"
      tmp_dir |-> <<47, 116, 109, 112, 0>>,    \* "/tmp"
      user_dir |-> <<47, 104, 111, 109, 101, 47, 100, 117, 107, 101, 47, 119, 111, 114, 107, 0>>,    \* "/home/duke/work"
      file_separator |-> <<47, 0>>,    \* "/"
      path_separator |-> <<58, 0>>,    \* ":"
      line_separator |-> <<10, 0>>,    \* "\n"
      user_name |-> <<100, 117, 107, 101, 0>>,    \* "duke"
      user_home |-> <<47, 104, 111, 109, 101, 47, 100, 117, 107, 101, 0>>,    \* "/home/duke"
      format_language |-> <<100, 101, 0>>,    \* "de"
      display_language |-> <<101, 110, 0>>,    \* "en"
      format_script |-> Absent,    \* NULL
      display_script |-> Absent,    \* NULL
      format_country |-> <<68, 69, 0>>,    \* "DE"
      display_country |-> <<85, 83, 0>>,    \* "US"
      format_variant |-> Absent,    \* NULL
      display_variant |-> Absent,    \* NULL
      encoding |-> <<85, 84, 70, 45, 56, 0>>,    \* "UTF-8"
      sun_jnu_encoding |-> <<85, 84, 70, 45, 56, 0>>,    \* "UTF-8"
      sun_stdout_encoding |-> Absent,    \* NULL
      sun_stderr_encoding |-> Absent,    \* NULL
      unicode_encoding |-> <<85, 110, 105, 99, 111, 100, 101, 76, 105, 116, 116, 108, 101, 0>>,    \* "UnicodeLittle"
      cpu_isalist |-> Absent,    \* NULL
      cpu_endian |-> <<108, 105, 116, 116, 108, 101, 0>>,    \* "little"
      data_model |-> <<54, 52, 0>>,    \* "64"
      patch_level |-> Absent ]    \* NULL

\* an AIX host built with JDK_ARCH_ABI_PROP_NAME; the home directory is unavailable
HostAIX ==
    [ os_name |-> <<65, 73, 88, 0>>,    \* "AIX"
      os_version |-> <<55, 46, 50, 0>>,    \* "7.2"
      os_arch |-> <<112, 112, 99, 54, 52, 0>>,    \* "ppc64"
      sun_arch_abi |-> <<101, 108, 102, 118, 50, 0>>,    \* "elfv2"
      tmp_dir |-> <<47, 116, 109, 112, 0>>,    \* "/tmp"
      user_dir |-> <<47, 0>>,    \* "/"
      file_separator |-> <<47, 0>>,    \* "/"
      path_separator |-> <<58, 0>>,    \* ":"
      line_separator |-> <<10, 0>>,    \* "\n"
      user_name |-> <<114, 101, 110, 233, 0>>,    \* "rené"
      user_home |-> Absent,    \* NULL
      format_language |-> <<101, 110, 0>>,    \* "en"
      display_language |-> <<101, 110, 0>>,    \* "en"
      format_script |-> Absent,    \* NULL
      display_script |-> Absent,    \* NULL
      format_country |-> <<85, 83, 0>>,    \* "US"
      display_country |-> <<85, 83, 0>>,    \* "US"
      format_variant |-> Absent,    \* NULL
      display_variant |-> Absent,    \* NULL
      encoding |-> <<73, 83, 79, 45, 56, 56, 53, 57, 45, 49, 0>>,    \* "ISO-8859-1"
      sun_jnu_encoding |-> <<73, 83, 79, 45, 56, 56, 53, 57, 45, 49, 0>>,    \* "ISO-8859-1"
      sun_stdout_encoding |-> <<85, 83, 45, 65, 83, 67, 73, 73, 0>>,    \* "US-ASCII"
      sun_stderr_encoding |-> <<73, 83, 79, 45, 56, 56, 53, 57, 45, 49, 53, 0>>,    \* "ISO-8859-15"
      unicode_encoding |-> <<85, 110, 105, 99, 111, 100, 101, 66, 105, 103, 0>>,    \* "UnicodeBig"
      cpu_isalist |-> Absent,    \* NULL
      cpu_endian |-> <<98, 105, 103, 0>>,    \* "big"
      data_model |-> <<54, 52, 0>>,    \* "64"
      patch_level |-> <<83, 80, 49, 0>> ]    \* "SP1"

\* a macOS host: the MACOSX proxy block is compiled in
HostMac ==
    [ os_name |-> <<77, 97, 99, 32, 79, 83, 32, 88, 0>>,    \* "Mac OS X"
      os_version |-> <<49, 52, 46, 48, 0>>,    \* "14.0"
      os_arch |-> <<97, 97, 114, 99, 104, 54, 52, 0>>,    \* "aarch64"
      tmp_dir |-> <<47, 116, 109, 112, 0>>,    \* "/tmp"
      user_dir |-> <<47, 85, 115, 101, 114, 115, 47, 100, 117, 107, 101, 0>>,    \* "/Users/duke"
      file_separator |-> <<47, 0>>,    \* "/"
      path_separator |-> <<58, 0>>,    \* ":"
      line_separator |-> <<10, 0>>,    \* "\n"
      user_name |-> <<100, 117, 107, 101, 0>>,    \* "duke"
      user_home |-> <<47, 85, 115, 101, 114, 115, 47, 100, 117, 107, 101, 0>>,    \* "/Users/duke"
      format_language |-> <<101, 110, 0>>,    \* "en"
      display_language |-> <<101, 110, 0>>,    \* "en"
      format_script |-> <<76, 97, 116, 110, 0>>,    \* "Latn"
      display_script |-> <<76, 97, 116, 110, 0>>,    \* "Latn"
      format_country |-> <<85, 83, 0>>,    \* "US"
      display_country |-> <<85, 83, 0>>,    \* "US"
      format_variant |-> Absent,    \* NULL
      display_variant |-> Absent,    \* NULL
      encoding |-> <<85, 84, 70, 45, 56, 0>>,    \* "UTF-8"
      sun_jnu_encoding |-> <<85, 84, 70, 45, 56, 0>>,    \* "UTF-8"
      sun_stdout_encoding |-> <<85, 84, 70, 45, 56, 0>>,    \* "UTF-8"
      sun_stderr_encoding |-> Absent,    \* NULL
      unicode_encoding |-> <<85, 110, 105, 99, 111, 100, 101, 76, 105, 116, 116, 108, 101, 0>>,    \* "UnicodeLittle"
      cpu_isalist |-> Absent,    \* NULL
      cpu_endian |-> <<108, 105, 116, 116, 108, 101, 0>>,    \* "little"
      data_model |-> <<54, 52, 0>>,    \* "64"
      patch_level |-> Absent,    \* NULL
      httpProxyEnabled |-> 1,    \* 1
      httpHost |-> <<112, 114, 111, 120, 121, 46, 101, 120, 97, 109, 112, 108, 101, 0>>,    \* "proxy.example"
      httpPort |-> <<56, 48, 56, 48, 0>>,    \* "8080"
      httpsProxyEnabled |-> 0,    \* 0
      httpsHost |-> Absent,    \* NULL
      httpsPort |-> Absent,    \* NULL
      ftpProxyEnabled |-> 0,    \* 0
      ftpHost |-> Absent,    \* NULL
      ftpPort |-> Absent,    \* NULL
      socksProxyEnabled |-> 0,    \* 0
      socksHost |-> Absent,    \* NULL
      socksPort |-> Absent,    \* NULL
      exceptionList |-> <<42, 46, 108, 111, 99, 97, 108, 0>> ]    \* "*.local"

\* the same hosts observed after the working directory and the locale changed
HostLinuxLater ==
    [HostLinux EXCEPT !.user_dir = <<47, 0>>,                   \* "/"
                      !.format_language = <<101, 110, 0>>]      \* "en"
HostAIXLater ==
    [HostAIX EXCEPT !.user_dir = <<47, 116, 109, 112, 0>>,      \* "/tmp"
                    !.encoding = UTF_8]
HostMacLater ==
    [HostMac EXCEPT !.user_dir = <<47, 0>>,                     \* "/"
                    !.httpProxyEnabled = 0]

Hosts == {HostLinux, HostLinuxLater, HostAIX, HostAIXLater, HostMac, HostMacLater}

\* the int fields of java_props_t
IntFields ==
    {"httpProxyEnabled", "httpsProxyEnabled", "ftpProxyEnabled", "socksProxyEnabled"}

\* the fields of java_props_t from os_name to user_home (lines 40 to 56)
FirstFields ==
    {"os_name", "os_version", "os_arch", "sun_arch_abi", "tmp_dir", "user_dir",
     "file_separator", "path_separator", "line_separator", "user_name", "user_home"}

\* a java_props_t of the build of host h with every field zero
Zeroed(h) == [f \in DOMAIN h |-> IF f \in IntFields THEN 0 ELSE Absent]

\* the fields fs of the record r
Fields(r, fs) == [f \in (DOMAIN r) \cap fs |-> r[f]]

(***************************************************************************)
(* The runtime's internal text: a counted sequence of 16-bit code units.   *)
(* Native text is taken to be 7-bit: a byte above 127 has no internal      *)
(* representation.                                                         *)
(***************************************************************************)
Representable(text) == \A i \in 1..Len(text) : text[i] < 128

\* the internal text of the native text, unit by unit
Internal(text) == [i \in 1..Len(text) |-> text[i] % 65536]

\* the internal text with '?' in the place of each byte above 127
InternalSubstituted(text) ==
    [i \in 1..Len(text) |-> IF text[i] < 128 THEN text[i] ELSE 63]

(***************************************************************************)
(* State.                                                                  *)
(***************************************************************************)
VARIABLES
    mem,        \* memory: address -> array of bytes
    pc,         \* per thread: where the thread is
    called,     \* per thread: the argument its caller passed to the call in progress
    encoding,   \* the parameter `encoding` of normalize_encoding, per call frame
    ret,        \* per thread: the value returned by the call
    first,      \* per thread: the result of the previous call when the caller
                \*   applies normalize_encoding to it again, else NULL
    sprops,     \* the property record of the process
    built,      \* whether the collector has filled the record
    seen,       \* per thread: the fields of the record it has read so far
    jstr,       \* per thread: the text returned by GetStringPlatform
    pending     \* per thread: the exception pending after GetStringPlatform

vars == <<mem, pc, called, encoding, ret, first, sprops, built, seen, jstr, pending>>

\* the state of the property record and of its readers
props == <<sprops, built, seen>>
\* the state of the text conversion
conv == <<jstr, pending>>
\* the state of the calls of normalize_encoding
calls == <<called, encoding, ret, first>>

Threads == 1..NumThreads
\* the thread that runs the start-up sequence
Main == CHOOSE t \in Threads : \A u \in Threads : t <= u

\* the arguments of the concurrent callers
ConcArgs == 1..NumConcArgs

\* a process in which a thread has faulted has ended
Running == \A u \in Threads : pc[u] # "fault"

Init ==
    /\ mem = InitialMemory
    /\ pc = [t \in Threads |-> "idle"]
    /\ called = [t \in Threads |-> NULL]
    /\ encoding = [t \in Threads |-> NULL]
    /\ ret = [t \in Threads |-> NULL]
    /\ first = [t \in Threads |-> NULL]
    /\ \E h \in Hosts : sprops = Zeroed(h)
    /\ built = FALSE
    /\ seen = [t \in Threads |-> Absent]
    /\ jstr = [t \in Threads |-> Absent]
    /\ pending = [t \in Threads |-> "none"]

(***************************************************************************)
(* normalize_encoding, one action per statement.                           *)
(***************************************************************************)
\* a parameter kept in one static variable shared by all calls
SlotStatic(t) == Main

\* the storage of the parameter `encoding`: automatic, one per call
Slot(t) == t

\* char* normalize_encoding(char* encoding): thread t calls it with p
Call(t, p) ==
    /\ Running
    /\ pc[t] = "idle"
    /\ called' = [called EXCEPT ![t] = p]
    /\ encoding' = [encoding EXCEPT ![Slot(t)] = p]
    /\ pc' = [pc EXCEPT ![t] = "L122"]
    /\ UNCHANGED <<mem, ret, first, props, conv>>

\* the common shape of the tests: go to `yes` on equality, else to `no`
Test(t, at, lit, yes, no) ==
    /\ Running
    /\ pc[t] = at
    /\ encoding[Slot(t)] # NULL
    /\ pc' = [pc EXCEPT ![t] =
                IF strcmp(mem[encoding[Slot(t)]], lit, 1) = 0 THEN yes ELSE no]
    /\ UNCHANGED <<mem, called, encoding, ret, first, props, conv>>

\* the common shape of the return statements: the caller gets p and the
\* lifetime of the parameter ends
Return(t, at, p) ==
    /\ Running
    /\ pc[t] = at
    /\ ret' = [ret EXCEPT ![t] = p]
    /\ encoding' = [encoding EXCEPT ![Slot(t)] = NULL]
    /\ pc' = [pc EXCEPT ![t] = "returned"]
    /\ UNCHANGED <<mem, called, first, props, conv>>

\* line 122: if (strcmp(encoding, "ISO8859-1") == 0)
L122(t) == Test(t, "L122", LIT_ISO8859_1, "L124", "L126")

\* line 122 with encoding == NULL: strcmp reads through a null pointer,
\* which is undefined; the call faults or returns any pointer at all
L122_null(t) ==
    /\ Running
    /\ pc[t] = "L122"
    /\ encoding[Slot(t)] = NULL
    /\ \/ /\ pc' = [pc EXCEPT ![t] = "fault"]
          /\ UNCHANGED ret
       \/ \E p \in Addr \cup {NULL} :
             /\ ret' = [ret EXCEPT ![t] = p]
             /\ pc' = [pc EXCEPT ![t] = "returned"]
    /\ UNCHANGED <<mem, called, encoding, first, props, conv>>

\* line 124 returning the literal of line 126 instead
L124_alias(t) == Return(t, "L124", pLIT_ISO8859_15)

\* line 124 rewriting the caller's buffer instead of returning a literal
L124_inplace(t) ==
    /\ Running
    /\ pc[t] = "L124"
    /\ mem' = [mem EXCEPT ![encoding[Slot(t)]] = ISO_8859_1]
    /\ ret' = [ret EXCEPT ![t] = encoding[Slot(t)]]
    /\ encoding' = [encoding EXCEPT ![Slot(t)] = NULL]
    /\ pc' = [pc EXCEPT ![t] = "returned"]
    /\ UNCHANGED <<called, first, props, conv>>

\* line 124: return ISO_8859_1;
L124(t) == Return(t, "L124", pISO_8859_1)

\* line 126: else if (strcmp(encoding, "ISO8859-15") == 0)
L126(t) == Test(t, "L126", LIT_ISO8859_15, "L128", "L130")

\* line 128 returning the macro of line 124
L128_copied(t) == Return(t, "L128", pISO_8859_1)

\* line 128: return ISO_8859_15;
L128(t) == Return(t, "L128", pISO_8859_15)

\* line 130: else if (strcmp(encoding, "ANSI_X3.4-1968") == 0
L130(t) == Test(t, "L130", LIT_ANSI_X3_4_1968, "L133", "L131")

\* line 131: || strcmp(encoding, "ISO646-US") == 0)
L131(t) == Test(t, "L131", LIT_ISO646_US, "L133", "L138")

\* line 133 returning the alias compared at line 131
L133_alias(t) == Return(t, "L133", pLIT_ISO646_US)

\* line 133: return US_ASCII;
L133(t) == Return(t, "L133", pUS_ASCII)

\* line 138 returning a default name for an unknown encoding
L138_default(t) == Return(t, "L138", pISO_8859_1)

\* line 138 returning NULL for an unknown encoding
L138_null(t) == Return(t, "L138", NULL)

\* line 138: return encoding;
L138(t) == Return(t, "L138", encoding[Slot(t)])

\* normalize_encoding as a function of the memory m and the argument p:
\* the pointer a call returns when nothing else runs
normalize_encoding(m, p) ==
    IF strcmp(m[p], LIT_ISO8859_1, 1) = 0 THEN pISO_8859_1
    ELSE IF strcmp(m[p], LIT_ISO8859_15, 1) = 0 THEN pISO_8859_15
    ELSE IF \/ strcmp(m[p], LIT_ANSI_X3_4_1968, 1) = 0
            \/ strcmp(m[p], LIT_ISO646_US, 1) = 0 THEN pUS_ASCII
    ELSE p

\* a step of a call of normalize_encoding by thread t
NormalizeStep(t) ==
    \/ L122(t) \/ L122_null(t) \/ L124(t) \/ L126(t) \/ L128(t)
    \/ L130(t) \/ L131(t) \/ L133(t) \/ L138(t)

(***************************************************************************)
(* The callers.                                                            *)
(***************************************************************************)
\* the caller of a call on a string passes the result to normalize_encoding again
Reapply(t) ==
    /\ Running
    /\ pc[t] = "returned"
    /\ first[t] = NULL
    /\ called[t] # NULL
    /\ ret[t] # NULL
    /\ first' = [first EXCEPT ![t] = ret[t]]
    /\ called' = [called EXCEPT ![t] = ret[t]]
    /\ encoding' = [encoding EXCEPT ![Slot(t)] = ret[t]]
    /\ pc' = [pc EXCEPT ![t] = "L122"]
    /\ UNCHANGED <<mem, ret, props, conv>>

\* the thread is done with the result of its operation
Finish(t) ==
    /\ Running
    /\ pc[t] \in {"returned", "read", "converted"}
    /\ pc' = [pc EXCEPT ![t] = "idle"]
    /\ called' = [called EXCEPT ![t] = NULL]
    /\ ret' = [ret EXCEPT ![t] = NULL]
    /\ first' = [first EXCEPT ![t] = NULL]
    /\ seen' = [seen EXCEPT ![t] = Absent]
    /\ jstr' = [jstr EXCEPT ![t] = Absent]
    /\ pending' = [pending EXCEPT ![t] = "none"]
    /\ UNCHANGED <<mem, encoding, sprops, built>>

(***************************************************************************)
(* java_props_t *GetJavaProperties(JNIEnv *env).  The header only declares *)
(* it; it is modelled from the specification: the start-up thread fills    *)
(* the record once from the host environment h, and every call returns     *)
(* the one record.                                                         *)
(***************************************************************************)
\* a collector that fills the record again on every call
GetJavaProperties_again(t, h) ==
    /\ Running
    /\ pc[t] = "idle"
    /\ built \/ t = Main
    /\ DOMAIN h = DOMAIN sprops
    /\ sprops' = h
    /\ built' = TRUE
    /\ pc' = [pc EXCEPT ![t] = "props"]
    /\ UNCHANGED <<mem, calls, seen, conv>>

GetJavaProperties(t, h) ==
    /\ Running
    /\ pc[t] = "idle"
    /\ DOMAIN h = DOMAIN sprops
    /\ IF built
         THEN UNCHANGED <<sprops, built>>
         ELSE /\ t = Main
              /\ sprops' = h
              /\ built' = TRUE
    /\ pc' = [pc EXCEPT ![t] = "props"]
    /\ UNCHANGED <<mem, calls, seen, conv>>

\* a consumer reads the fields os_name to user_home of the record
ReadBegin(t) ==
    /\ Running
    /\ pc[t] = "props"
    /\ seen' = [seen EXCEPT ![t] = Fields(sprops, FirstFields)]
    /\ pc' = [pc EXCEPT ![t] = "reading"]
    /\ UNCHANGED <<mem, calls, sprops, built, conv>>

\* and then the remaining fields
ReadEnd(t) ==
    /\ Running
    /\ pc[t] = "reading"
    /\ seen' = [seen EXCEPT ![t] =
                  seen[t] @@ Fields(sprops, (DOMAIN sprops) \ FirstFields)]
    /\ pc' = [pc EXCEPT ![t] = "read"]
    /\ UNCHANGED <<mem, calls, sprops, built, conv>>

(***************************************************************************)
(* jstring GetStringPlatform(JNIEnv *env, nchar* str).  The header only    *)
(* declares it; it is modelled from the specification: the internal text   *)
(* of the native string, or a conversion error and no string.              *)
(***************************************************************************)
\* a conversion that substitutes '?' for what it cannot represent
GetStringPlatform_substitute(t, str) ==
    /\ Running
    /\ pc[t] = "idle"
    /\ called' = [called EXCEPT ![t] = str]
    /\ jstr' = [jstr EXCEPT ![t] = <<InternalSubstituted(CStr(mem[str]))>>]
    /\ pending' = [pending EXCEPT ![t] = "none"]
    /\ pc' = [pc EXCEPT ![t] = "converted"]
    /\ UNCHANGED <<mem, encoding, ret, first, props>>

GetStringPlatform(t, str) ==
    /\ Running
    /\ pc[t] = "idle"
    /\ called' = [called EXCEPT ![t] = str]
    /\ IF Representable(CStr(mem[str]))
         THEN /\ jstr' = [jstr EXCEPT ![t] = <<Internal(CStr(mem[str]))>>]
              /\ pending' = [pending EXCEPT ![t] = "none"]
         ELSE /\ jstr' = [jstr EXCEPT ![t] = Absent]
              /\ pending' = [pending EXCEPT ![t] = "conversion error"]
    /\ pc' = [pc EXCEPT ![t] = "converted"]
    /\ UNCHANGED <<mem, encoding, ret, first, props>>

(***************************************************************************)
(* Specifications.  Spec: the start-up thread alone, over every input      *)
(* string and NULL.  SpecConc: all threads, over the first buffers.        *)
(***************************************************************************)
Next ==
    \/ \E p \in Buffers \cup {NULL} : Call(Main, p)
    \/ L122(Main)
    \/ L122_null(Main)
    \/ L124(Main)
    \/ L126(Main)
    \/ L128(Main)
    \/ L130(Main)
    \/ L131(Main)
    \/ L133(Main)
    \/ L138(Main)
    \/ Reapply(Main)
    \/ Finish(Main)
    \/ \E h \in Hosts : GetJavaProperties(Main, h)
    \/ ReadBegin(Main)
    \/ ReadEnd(Main)
    \/ \E str \in Buffers : GetStringPlatform(Main, str)

Spec == Init /\ [][Next]_vars

NextConc ==
    \/ \E t \in Threads, p \in ConcArgs : Call(t, p)
    \/ \E t \in Threads : L122(t)
    \/ \E t \in Threads : L124(t)
    \/ \E t \in Threads : L126(t)
    \/ \E t \in Threads : L128(t)
    \/ \E t \in Threads : L130(t)
    \/ \E t \in Threads : L131(t)
    \/ \E t \in Threads : L133(t)
    \/ \E t \in Threads : L138(t)
    \/ \E t \in Threads : Finish(t)
    \/ \E t \in Threads, h \in Hosts : GetJavaProperties(t, h)
    \/ \E t \in Threads : ReadBegin(t)
    \/ \E t \in Threads : ReadEnd(t)

SpecConc == Init /\ [][NextConc]_vars

(***************************************************************************)
(* Properties.                                                             *)
(***************************************************************************)
\* the text of the C string at the address p
Text(p) == CStr(mem[p])

\* thread t's call of normalize_encoding on a string has returned
Done(t) == pc[t] = "returned" /\ called[t] # NULL

\* the places of a call of normalize_encoding in progress
CallPcs == {"L122", "L124", "L126", "L128", "L130", "L131", "L133", "L138"}

\* the texts of the four aliases and of the three names they map to
AliasTexts ==
    { CStr(LIT_ISO8859_1), CStr(LIT_ISO8859_15),
      CStr(LIT_ANSI_X3_4_1968), CStr(LIT_ISO646_US) }
CanonicalTexts == { CStr(ISO_8859_1), CStr(ISO_8859_15), CStr(US_ASCII) }

\* x is a proper prefix of y
ProperPrefix(x, y) == Len(x) < Len(y) /\ SubSeq(y, 1, Len(x)) = x

\* x and y differ, and only in the case of letters
CaseVariant(x, y) ==
    /\ x # y
    /\ Len(x) = Len(y)
    /\ \A i \in 1..Len(x) : x[i] = y[i] \/ x[i] = FlipCase(y[i])

\* C1: a call on "ISO8859-1", "ISO8859-15", "ANSI_X3.4-1968" or "ISO646-US"
\* returns exactly "ISO-8859-1", "ISO-8859-15", "US-ASCII" and "US-ASCII".
C1_AliasesToCanonical ==
    \A t \in Threads : Done(t) =>
        /\ Text(called[t]) = CStr(LIT_ISO8859_1)
              => Text(ret[t]) = <<73, 83, 79, 45, 56, 56, 53, 57, 45, 49>>
        /\ Text(called[t]) = CStr(LIT_ISO8859_15)
              => Text(ret[t]) = <<73, 83, 79, 45, 56, 56, 53, 57, 45, 49, 53>>
        /\ Text(called[t]) = CStr(LIT_ANSI_X3_4_1968)
              => Text(ret[t]) = <<85, 83, 45, 65, 83, 67, 73, 73>>
        /\ Text(called[t]) = CStr(LIT_ISO646_US)
              => Text(ret[t]) = <<85, 83, 45, 65, 83, 67, 73, 73>>

\* a call on "ISO8859-15" has returned "ISO-8859-15"
C1_Witness ==
    \E t \in Threads :
        /\ Done(t)
        /\ Text(called[t]) = CStr(LIT_ISO8859_15)
        /\ Text(ret[t]) = CStr(ISO_8859_15)

\* C2: a call on a string that is none of the four aliases returns its
\* argument: the same pointer, not a copy and not another name.
C2_OthersReturnedUnchanged ==
    \A t \in Threads :
        Done(t) /\ Text(called[t]) \notin AliasTexts => ret[t] = called[t]

\* a call on the empty string has returned its argument
C2_Witness ==
    \E t \in Threads :
        Done(t) /\ Text(called[t]) = <<>> /\ ret[t] = called[t]

\* C3: normalize_encoding applied to its own result returns that result.
C3_Idempotent ==
    \A t \in Threads :
        pc[t] = "returned" /\ first[t] # NULL => ret[t] = first[t]

\* the result "ISO-8859-15" of a call on an alias was passed again and came back
C3_Witness ==
    \E t \in Threads :
        /\ pc[t] = "returned"
        /\ first[t] = pISO_8859_15
        /\ ret[t] = pISO_8859_15

\* C4: a call on a non-null string never faults, can always take its next
\* step, and returns a non-null pointer to a string.
C4_TotalOnStrings ==
    \A t \in Threads : called[t] # NULL =>
        /\ pc[t] # "fault"
        /\ pc[t] \in CallPcs => ENABLED NormalizeStep(t)
        /\ pc[t] = "returned" => ret[t] # NULL /\ ret[t] \in DOMAIN mem

\* a call on the string "\xE9", which is no encoding name, has returned it
C4_Witness ==
    \E t \in Threads :
        Done(t) /\ Text(called[t]) = <<233>> /\ ret[t] = called[t]

\* a step of a call changes nothing but the place, the parameter and the
\* result of that call
C5_StepFrame ==
    \A t \in Threads : NormalizeStep(t) =>
        /\ mem' = mem
        /\ sprops' = sprops /\ built' = built /\ seen' = seen
        /\ jstr' = jstr /\ pending' = pending
        /\ called' = called /\ first' = first
        /\ \A u \in Threads \ {t} :
              pc'[u] = pc[u] /\ ret'[u] = ret[u] /\ encoding'[u] = encoding[u]

\* calls on strings of equal text return strings of equal text
C5_ResultByText ==
    \A t, u \in Threads :
        Done(t) /\ Done(u) /\ Text(called[t]) = Text(called[u])
            => Text(ret[t]) = Text(ret[u])

\* C5: a step of normalize_encoding changes nothing but the place, the
\* parameter and the result of its own call (not the memory, not the
\* property record, not another thread's state), and calls on strings of
\* equal text return strings of equal text.
C5_NoSideEffects == [][C5_StepFrame]_vars /\ []C5_ResultByText

\* two calls on different buffers holding "ISO8859-1" have both returned
\* "ISO-8859-1" and the memory is as it was
C5_Witness ==
    \E t, u \in Threads :
        /\ Done(t) /\ Done(u)
        /\ called[t] # called[u]
        /\ Text(called[t]) = CStr(LIT_ISO8859_1)
        /\ Text(called[u]) = CStr(LIT_ISO8859_1)
        /\ ret[t] = pISO_8859_1 /\ ret[u] = pISO_8859_1
        /\ mem = InitialMemory

\* a step leaves a built record as it is, and a thread that has read fields
\* holds the values the record has
C6_Step ==
    /\ built => built' /\ sprops' = sprops
    /\ \A t \in Threads :
          /\ pc'[t] = "reading" => seen'[t] = Fields(sprops', FirstFields)
          /\ pc'[t] = "read" => seen'[t] = sprops'

\* C6: once the collector has built the record no step writes it, and a
\* thread that has read fields of it holds the values the record has.
C6_WriteOnce == [][C6_Step]_vars

\* two threads have read every field of the record built on the AIX host,
\* where the home directory is absent
C6_Witness ==
    \E t, u \in Threads :
        /\ t # u
        /\ built /\ sprops = HostAIX
        /\ pc[t] = "read" /\ pc[u] = "read"
        /\ seen[t] = sprops /\ seen[u] = sprops

\* C7: under every interleaving, a call returns what it returns when it
\* runs alone on its argument.
C7_ConcurrentAsAlone ==
    \A t \in Threads : Done(t) => ret[t] = normalize_encoding(mem, called[t])

\* one call has returned "US-ASCII" while a call of another thread on
\* another string is between two of its tests
C7_Witness ==
    \E t, u \in Threads :
        /\ t # u
        /\ Done(t) /\ ret[t] = pUS_ASCII
        /\ pc[u] = "L130" /\ called[u] # called[t]

\* C8: GetStringPlatform returns the internal text of its native argument,
\* unit for unit, and when a byte of it has no internal representation it
\* returns no string and leaves a conversion error pending.
C8_ConversionOrError ==
    \A t \in Threads : pc[t] = "converted" =>
        LET text == Text(called[t])
        IN  IF \A i \in 1..Len(text) : text[i] <= 127
              THEN /\ pending[t] = "none"
                   /\ Len(jstr[t]) = 1
                   /\ Len(jstr[t][1]) = Len(text)
                   /\ \A i \in 1..Len(text) : jstr[t][1][i] = text[i]
              ELSE /\ pending[t] = "conversion error"
                   /\ jstr[t] = Absent

\* the conversion of "ren\xE9" has raised a conversion error
C8_Witness ==
    \E t \in Threads :
        /\ pc[t] = "converted"
        /\ Text(called[t]) = <<114, 101, 110, 233>>
        /\ pending[t] = "conversion error"
        /\ jstr[t] = Absent

\* C9: a string that is a proper prefix or an extension of an alias, or
\* differs from one only in the case of letters, and is no alias itself, is
\* returned unchanged; "ISO8859-15" yields "ISO-8859-15".
C9_WholeStringCaseSensitive ==
    \A t \in Threads : Done(t) =>
        LET text == Text(called[t])
        IN  /\ ( /\ text \notin AliasTexts
                 /\ \E a \in AliasTexts :
                       \/ ProperPrefix(text, a)
                       \/ ProperPrefix(a, text)
                       \/ CaseVariant(text, a) )
               => ret[t] = called[t]
            /\ text = CStr(LIT_ISO8859_15) => ret[t] = pISO_8859_15

\* a call on "ISO8859-150" has returned its argument
C9_Witness ==
    \E t \in Threads :
        /\ Done(t)
        /\ Text(called[t]) = <<73, 83, 79, 56, 56, 53, 57, 45, 49, 53, 48>>
        /\ ret[t] = called[t]

\* C10: the result is the argument or one of the literals "ISO-8859-1",
\* "ISO-8859-15", "US-ASCII"; its text is never an alias; and "UTF-8" and
\* "windows-1251" come back only as the argument itself.
C10_ResultRange ==
    \A t \in Threads : Done(t) =>
        /\ ret[t] \in {called[t], pISO_8859_1, pISO_8859_15, pUS_ASCII}
        /\ Text(ret[t]) \notin AliasTexts
        /\ Text(ret[t]) \in {CStr(UTF_8), CStr(WINDOWS_1251)} => ret[t] = called[t]

\* a call on "windows-1251" has returned its argument
C10_Witness ==
    \E t \in Threads :
        Done(t) /\ Text(called[t]) = CStr(WINDOWS_1251) /\ ret[t] = called[t]

====
